---------------------------- MODULE Spec2Model ----------------------------
(***************************************************************************)
(* Model of synack-mission-bot (src/mission_bot.go): the Mission Poller    *)
(* (mainLoop), the Target Poller (pollUnregisteredTargets), the credential *)
(* refresh over the unbuffered tokenChan, and main.                        *)
(*                                                                         *)
(* Strings that the program inspects (error texts, searched with           *)
(* strings.Contains) are sequences of one-character strings.  Tokens are   *)
(* numbered: 0 is the empty string, 1..NumTokens are distinct non-empty    *)
(* credentials.                                                            *)
(*                                                                         *)
(* A step of a loop is one answer from the platform together with all the  *)
(* loop does with it up to its next request, prompt or channel operation.  *)
(* The send on the unbuffered tokenChan completes in the step in which the *)
(* other loop's select receives.  The sleeps carry no state and are part   *)
(* of the step before them.                                                *)
(*                                                                         *)
(* Specifications: Spec (both loops, every token, short lists), SpecLive   *)
(* (Spec with fair loops and main returning), SpecMission (every batch and *)
(* claim answer) and SpecTarget (every target list and registration        *)
(* answer).                                                                *)
(***************************************************************************)
EXTENDS Integers, Sequences, FiniteSets, TLC

\* ------------------------------------------------------------------ bounds
\* longest task list a mission fetch returns in the model
MaxBatch == 3
\* longest target list a target fetch returns in the model
MaxTargets == 3
\* most 429 answers the server gives in a row to one logical call
MaxRetry == 2
\* longest list either fetch returns where the other loop is the subject
SmallList == 1
\* number of distinct non-empty credentials
NumTokens == 2

\* ------------------------------------------------------- program constants
\* mainLoop: "if consecutive403Count >= 5"
ForbiddenThreshold == 5

Tokens == 0..NumTokens
EmptyToken == 0

\* ------------------------------------------------------------------- texts
\* text: Mission cannot be claimed anymore (412)
TxtClaim412 ==
  <<
    "M","i","s","s","i","o","n"," ","c","a","n","n","o","t"," ","b","e"," ","c","l","a","i","m",
    "e","d"," ","a","n","y","m","o","r","e"," ","(","4","1","2",")" >>

\* text: Unauthorized (401)
TxtClaim401 ==
  <<
    "U","n","a","u","t","h","o","r","i","z","e","d"," ","(","4","0","1",")" >>

\* text: Failed to claim task, status code: 403
TxtClaim403 ==
  <<
    "F","a","i","l","e","d"," ","t","o"," ","c","l","a","i","m"," ","t","a","s","k",","," ","s",
    "t","a","t","u","s"," ","c","o","d","e",":"," ","4","0","3" >>

\* text: Failed to claim task, status code: 
TxtClaimDefault ==
  <<
    "F","a","i","l","e","d"," ","t","o"," ","c","l","a","i","m"," ","t","a","s","k",","," ","s",
    "t","a","t","u","s"," ","c","o","d","e",":"," " >>

\* text: https://platform.synack.com/api/tasks/v1/organizations/
TxtClaimURL1 ==
  <<
    "h","t","t","p","s",":","/","/","p","l","a","t","f","o","r","m",".","s","y","n","a","c","k",
    ".","c","o","m","/","a","p","i","/","t","a","s","k","s","/","v","1","/","o","r","g","a","n",
    "i","z","a","t","i","o","n","s","/" >>

\* text: /listings/
TxtClaimURL2 ==
  <<
    "/","l","i","s","t","i","n","g","s","/" >>

\* text: /campaigns/
TxtClaimURL3 ==
  <<
    "/","c","a","m","p","a","i","g","n","s","/" >>

\* text: /tasks/
TxtClaimURL4 ==
  <<
    "/","t","a","s","k","s","/" >>

\* text: /transitions
TxtClaimURL5 ==
  <<
    "/","t","r","a","n","s","i","t","i","o","n","s" >>

\* text: unauthorized (401)
TxtTasks401 ==
  <<
    "u","n","a","u","t","h","o","r","i","z","e","d"," ","(","4","0","1",")" >>

\* text: failed to retrieve tasks, status code: 
TxtTasksDefault ==
  <<
    "f","a","i","l","e","d"," ","t","o"," ","r","e","t","r","i","e","v","e"," ","t","a","s","k",
    "s",","," ","s","t","a","t","u","s"," ","c","o","d","e",":"," " >>

\* text: https://platform.synack.com/api/tasks/v2/tasks?includeAssignedBySynackUser=false&page=1&perPage=20&sort=CLAIMABLE&sortDir=DESC&status=PUBLISHED&viewed=true
TxtTasksURL ==
  <<
    "h","t","t","p","s",":","/","/","p","l","a","t","f","o","r","m",".","s","y","n","a","c","k",
    ".","c","o","m","/","a","p","i","/","t","a","s","k","s","/","v","2","/","t","a","s","k","s",
    "?","i","n","c","l","u","d","e","A","s","s","i","g","n","e","d","B","y","S","y","n","a","c",
    "k","U","s","e","r","=","f","a","l","s","e","&","p","a","g","e","=","1","&","p","e","r","P",
    "a","g","e","=","2","0","&","s","o","r","t","=","C","L","A","I","M","A","B","L","E","&","s",
    "o","r","t","D","i","r","=","D","E","S","C","&","s","t","a","t","u","s","=","P","U","B","L",
    "I","S","H","E","D","&","v","i","e","w","e","d","=","t","r","u","e" >>

\* text: unauthorized (401)
TxtTargets401 ==
  <<
    "u","n","a","u","t","h","o","r","i","z","e","d"," ","(","4","0","1",")" >>

\* text: failed to retrieve unregistered targets, status code: 
TxtTargetsDefault ==
  <<
    "f","a","i","l","e","d"," ","t","o"," ","r","e","t","r","i","e","v","e"," ","u","n","r","e",
    "g","i","s","t","e","r","e","d"," ","t","a","r","g","e","t","s",","," ","s","t","a","t","u",
    "s"," ","c","o","d","e",":"," " >>

\* text: https://platform.synack.com/api/targets?filter%5Bprimary%5D=unregistered&filter%5Bsecondary%5D=all&filter%5Bcategory%5D=all&filter%5Bindustry%5D=all&filter%5Bpayout_status%5D=all&sorting%5Bfield%5D=onboardedAt&sorting%5Bdirection%5D=desc&pagination%5Bpage%5D=1&pagination%5Bper_page%5D=15
TxtTargetsURL ==
  <<
    "h","t","t","p","s",":","/","/","p","l","a","t","f","o","r","m",".","s","y","n","a","c","k",
    ".","c","o","m","/","a","p","i","/","t","a","r","g","e","t","s","?","f","i","l","t","e","r",
    "%","5","B","p","r","i","m","a","r","y","%","5","D","=","u","n","r","e","g","i","s","t","e",
    "r","e","d","&","f","i","l","t","e","r","%","5","B","s","e","c","o","n","d","a","r","y","%",
    "5","D","=","a","l","l","&","f","i","l","t","e","r","%","5","B","c","a","t","e","g","o","r",
    "y","%","5","D","=","a","l","l","&","f","i","l","t","e","r","%","5","B","i","n","d","u","s",
    "t","r","y","%","5","D","=","a","l","l","&","f","i","l","t","e","r","%","5","B","p","a","y",
    "o","u","t","_","s","t","a","t","u","s","%","5","D","=","a","l","l","&","s","o","r","t","i",
    "n","g","%","5","B","f","i","e","l","d","%","5","D","=","o","n","b","o","a","r","d","e","d",
    "A","t","&","s","o","r","t","i","n","g","%","5","B","d","i","r","e","c","t","i","o","n","%",
    "5","D","=","d","e","s","c","&","p","a","g","i","n","a","t","i","o","n","%","5","B","p","a",
    "g","e","%","5","D","=","1","&","p","a","g","i","n","a","t","i","o","n","%","5","B","p","e",
    "r","_","p","a","g","e","%","5","D","=","1","5" >>

\* text: Post "
TxtPost ==
  <<
    "P","o","s","t"," ","\"" >>

\* text: Get "
TxtGet ==
  <<
    "G","e","t"," ","\"" >>

\* text: ": 
TxtUrlErrSep ==
  <<
    "\"",":"," " >>

\* text: EOF
CauseEOF ==
  <<
    "E","O","F" >>

\* text: read tcp 10.0.0.2:40312->10.0.0.9:443: i/o timeout
CausePort403 ==
  <<
    "r","e","a","d"," ","t","c","p"," ","1","0",".","0",".","0",".","2",":","4","0","3","1","2",
    "-",">","1","0",".","0",".","0",".","9",":","4","4","3",":"," ","i","/","o"," ","t","i","m",
    "e","o","u","t" >>

\* text: read tcp 10.0.0.2:40112->10.0.0.9:443: i/o timeout
CausePort401 ==
  <<
    "r","e","a","d"," ","t","c","p"," ","1","0",".","0",".","0",".","2",":","4","0","1","1","2",
    "-",">","1","0",".","0",".","0",".","9",":","4","4","3",":"," ","i","/","o"," ","t","i","m",
    "e","o","u","t" >>

\* text: unexpected EOF
TxtDecode ==
  <<
    "u","n","e","x","p","e","c","t","e","d"," ","E","O","F" >>

Str403 == <<"4","0","3">>
Str401 == <<"4","0","1">>

\* ---------------------------------------------------------- pure functions
\* strings.Contains(s, sub)
Contains(s, sub) ==
  \E i \in 1..(Len(s) - Len(sub) + 1) : SubSeq(s, i, i + Len(sub) - 1) = sub

Digit(d) ==
  CASE d = 0 -> "0" [] d = 1 -> "1" [] d = 2 -> "2" [] d = 3 -> "3"
    [] d = 4 -> "4" [] d = 5 -> "5" [] d = 6 -> "6" [] d = 7 -> "7"
    [] d = 8 -> "8" [] d = 9 -> "9"

\* the %d verb of fmt for a non-negative integer
RECURSIVE Itoa(_)
Itoa(n) ==
  IF n < 10 THEN <<Digit(n)>> ELSE Itoa(n \div 10) \o <<Digit(n % 10)>>

\* error values: nil, or an error with its Error() text
NilErr == [nil |-> TRUE, text |-> <<>>]
Errorf(txt) == [nil |-> FALSE, text |-> txt]

\* what the HTTP client hands back for one request: a response with a
\* status, or a transport failure (kind "net") with the cause's text
\* retryAfter is the value of the Retry-After header, <<>> when there is none
HttpResp(st) == [kind |-> "http", status |-> st, cause |-> <<>>, retryAfter |-> <<>>]
NetFail(c) == [kind |-> "net", status |-> 0, cause |-> c, retryAfter |-> <<>>]
\* a 200 answer whose body does not decode: json's Decode returns an error
\* of its own or the error of the read, with text c
BodyFail(c) == [kind |-> "decode", status |-> 200, cause |-> c, retryAfter |-> <<>>]
BadBody == BodyFail(TxtDecode)
\* a 429 answer with a Retry-After header
RateLimited(h) == [kind |-> "http", status |-> 429, cause |-> <<>>, retryAfter |-> h]

IsDigit(c) == c \in {"0", "1", "2", "3", "4", "5", "6", "7", "8", "9"}
DigitVal(c) ==
  CASE c = "0" -> 0 [] c = "1" -> 1 [] c = "2" -> 2 [] c = "3" -> 3
    [] c = "4" -> 4 [] c = "5" -> 5 [] c = "6" -> 6 [] c = "7" -> 7
    [] c = "8" -> 8 [] c = "9" -> 9

\* ---- decimal numerals: sequences of digits 0..9, most significant first,
\* without leading zeros; <<>> is zero.  (int64 values do not fit the
\* integers of the checker.)
DigitsOf(s) == [i \in 1..Len(s) |-> DigitVal(s[i])]

RECURSIVE StripZeros(_)
StripZeros(d) == IF d # <<>> /\ d[1] = 0 THEN StripZeros(Tail(d)) ELSE d

NumLessEq(a, b) ==
  \/ Len(a) < Len(b)
  \/ /\ Len(a) = Len(b)
     /\ \/ a = b
        \/ \E i \in 1..Len(a) : a[i] < b[i] /\ \A j \in 1..(i - 1) : a[j] = b[j]

\* 1<<63 - 1 and 1<<63
MaxInt64 == <<9,2,2,3,3,7,2,0,3,6,8,5,4,7,7,5,8,0,7>>
MinInt64Mag == <<9,2,2,3,3,7,2,0,3,6,8,5,4,7,7,5,8,0,8>>

\* an int64 as sign and magnitude
Int64(neg, mag) == [neg |-> neg /\ mag # <<>>, mag |-> mag]

\* ---- 64-bit words: four 16-bit limbs, least significant first
LimbBase == 65536
ZeroWord == <<0, 0, 0, 0>>

\* 10 * w + c in 64 bits (the carry out of the top limb is lost)
Times10Plus(w, c) ==
  LET x1 == w[1] * 10 + c
      x2 == w[2] * 10 + x1 \div LimbBase
      x3 == w[3] * 10 + x2 \div LimbBase
      x4 == w[4] * 10 + x3 \div LimbBase
  IN <<x1 % LimbBase, x2 % LimbBase, x3 % LimbBase, x4 % LimbBase>>

\* the numeral d[1..i] modulo 1<<64
RECURSIVE WordOf(_, _)
WordOf(d, i) == IF i = 0 THEN ZeroWord ELSE Times10Plus(WordOf(d, i - 1), d[i])

\* two's complement negation in 64 bits
NegWord(w) ==
  LET y1 == (LimbBase - 1 - w[1]) + 1
      y2 == (LimbBase - 1 - w[2]) + y1 \div LimbBase
      y3 == (LimbBase - 1 - w[3]) + y2 \div LimbBase
      y4 == (LimbBase - 1 - w[4]) + y3 \div LimbBase
  IN <<y1 % LimbBase, y2 % LimbBase, y3 % LimbBase, y4 % LimbBase>>

\* w divided by 10: quotient and remainder
DivMod10(w) ==
  LET x4 == w[4]
      x3 == (x4 % 10) * LimbBase + w[3]
      x2 == (x3 % 10) * LimbBase + w[2]
      x1 == (x2 % 10) * LimbBase + w[1]
  IN [q |-> <<x1 \div 10, x2 \div 10, x3 \div 10, x4 \div 10>>, r |-> x1 % 10]

\* the numeral of the unsigned word
RECURSIVE NumeralOf(_)
NumeralOf(w) ==
  IF w = ZeroWord THEN <<>>
  ELSE LET dm == DivMod10(w) IN NumeralOf(dm.q) \o <<dm.r>>

\* the int64 a word stands for
Int64OfWord(w) ==
  IF w[4] >= LimbBase \div 2 THEN Int64(TRUE, NumeralOf(NegWord(w)))
  ELSE Int64(FALSE, NumeralOf(w))

NineZeros == <<0,0,0,0,0,0,0,0,0>>

\* time.Duration(secs) * time.Second: the int64 product, which wraps around
MulSecond(n) ==
  LET u == WordOf(n.mag \o NineZeros, Len(n.mag) + 9)
  IN Int64OfWord(IF n.neg THEN NegWord(u) ELSE u)

\* time.Sleep(d): the nanoseconds slept; d <= 0 returns at once
SleepNs(d) == IF d.neg THEN <<>> ELSE d.mag

\* strconv.Atoi: an optional sign, then one or more decimal digits whose
\* value is an int64; otherwise an error
Atoi(s) ==
  LET signed == s # <<>> /\ s[1] \in {"+", "-"}
      ds == IF signed THEN Tail(s) ELSE s
      wellFormed == ds # <<>> /\ \A i \in 1..Len(ds) : IsDigit(ds[i])
      neg == signed /\ s[1] = "-"
      mag == IF wellFormed THEN StripZeros(DigitsOf(ds)) ELSE <<>>
      ok == wellFormed /\ NumLessEq(mag, IF neg THEN MinInt64Mag ELSE MaxInt64)
  IN [ok |-> ok, val |-> IF ok THEN Int64(neg, mag) ELSE Int64(FALSE, <<>>)]

\* 30 * time.Second, the fixed wait of all three calls, in nanoseconds
FallbackWait == <<3,0>> \o NineZeros

\* getTasks, case 429: the nanoseconds it sleeps before it calls itself again
getTasksWait(retryAfter) ==
  IF retryAfter = <<>> THEN FallbackWait
  ELSE IF Atoi(retryAfter).ok THEN SleepNs(MulSecond(Atoi(retryAfter).val))
  ELSE FallbackWait

\* getUnregisteredTargets, case 429: the header is not read
getUnregisteredTargetsWait(retryAfter) == FallbackWait

\* signupTarget, status 429: the header is not read
signupTargetWait(retryAfter) == FallbackWait

\* url.Error text of client.Do: Op "URL": cause
UrlError(op, url, cause) == op \o url \o TxtUrlErrSep \o cause

\* ---------------------------------------------------------------- missions
Task(id) ==
  [ID |-> id, CampaignUid |-> <<"c","1">>, ListingUid |-> <<"l","1">>,
   OrganizationUid |-> <<"o","1">>]

\* the tasks the platform may list: a plain id, and an id with 403 in it
TaskPool == { Task(<<"m","7">>), Task(<<"x","4","0","3">>) }

ClaimURL(task) ==
  TxtClaimURL1 \o task.OrganizationUid \o TxtClaimURL2 \o task.ListingUid
    \o TxtClaimURL3 \o task.CampaignUid \o TxtClaimURL4 \o task.ID
    \o TxtClaimURL5

\* variant: a 429 answer is reported with the text of a 403
postClaimTask_429As403(task, resp) ==
  IF resp.kind = "net" THEN Errorf(UrlError(TxtPost, ClaimURL(task), resp.cause))
  ELSE CASE resp.status = 201 -> NilErr
         [] resp.status = 412 -> Errorf(TxtClaim412)
         [] resp.status = 401 -> Errorf(TxtClaim401)
         [] resp.status = 403 -> Errorf(TxtClaim403)
         [] resp.status = 429 -> Errorf(TxtClaim403)
         [] OTHER -> Errorf(TxtClaimDefault \o Itoa(resp.status))

\* postClaimTask: the error returned for the answer resp to the claim request
postClaimTask(task, resp) ==
  IF resp.kind = "net" THEN Errorf(UrlError(TxtPost, ClaimURL(task), resp.cause))
  ELSE CASE resp.status = 201 -> NilErr
         [] resp.status = 412 -> Errorf(TxtClaim412)
         [] resp.status = 401 -> Errorf(TxtClaim401)
         [] resp.status = 403 -> Errorf(TxtClaim403)
         [] OTHER -> Errorf(TxtClaimDefault \o Itoa(resp.status))

\* getTasks: the error returned for a final (not 429) answer to the fetch
getTasks(resp) ==
  IF resp.kind = "net" THEN Errorf(UrlError(TxtGet, TxtTasksURL, resp.cause))
  ELSE IF resp.kind = "decode" THEN Errorf(resp.cause)
  ELSE CASE resp.status = 200 -> NilErr
         [] resp.status = 401 -> Errorf(TxtTasks401)
         [] OTHER -> Errorf(TxtTasksDefault \o Itoa(resp.status))

\* getUnregisteredTargets: the error for a final (not 429) answer
getUnregisteredTargets(resp) ==
  IF resp.kind = "net" THEN Errorf(UrlError(TxtGet, TxtTargetsURL, resp.cause))
  ELSE IF resp.kind = "decode" THEN Errorf(resp.cause)
  ELSE CASE resp.status = 200 -> NilErr
         [] resp.status = 401 -> Errorf(TxtTargets401)
         [] OTHER -> Errorf(TxtTargetsDefault \o Itoa(resp.status))

\* signupTarget: TRUE iff it returns nil for a final (not 429) answer
signupTarget(resp) == resp.kind = "http" /\ resp.status = 200

\* ------------------------------------------------------------------ inputs
NetCauses == { CauseEOF, CausePort403, CausePort401 }
NetFails == { NetFail(c) : c \in NetCauses }

\* Retry-After values: none, seconds (7), seconds whose nanoseconds pass
\* 1<<63 (9223372037), digits that pass int64, and a text
RetryAfters ==
  { <<>>, <<"7">>, <<"9","2","2","3","3","7","2","0","3","7">>,
    <<"9","9","9","9","9","9","9","9","9","9","9","9","9","9","9","9","9","9","9","9">>,
    <<"x">> }
RateLimiteds == { RateLimited(h) : h \in RetryAfters }

ClaimResps == { HttpResp(st) : st \in {201, 401, 403, 412, 429, 500} } \cup NetFails
FetchResps ==
  { HttpResp(st) : st \in {200, 401, 403, 500} } \cup RateLimiteds \cup NetFails
    \cup {BadBody, BodyFail(CausePort401)}
SignupResps ==
  { HttpResp(st) : st \in {200, 401, 500} } \cup RateLimiteds \cup {NetFail(CauseEOF)}

SeqsUpTo(S, n) == UNION { [1..k -> S] : k \in 0..n }
Batches == SeqsUpTo(TaskPool, MaxBatch)
Slugs == {"a", "b", "c"}
TargetLists == SeqsUpTo(Slugs, MaxTargets)

\* ------------------------------------------------------------------- state
VARIABLES
  proc,        \* "start", "running" or "exited"
  exitCode,    \* exit status once proc = "exited", -1 before
  tokenFlag,   \* the value of -t
  argv,        \* the command line: "ok" (it parses), "help" (-h or -help
               \* is met first) or "bad" (an undefined flag, a missing or
               \* a malformed value is met first)
  mpc,         \* Mission Poller: "idle","select","fetch","claim","prompt","send","returned"
  mtoken,      \* mainLoop's token
  mNew,        \* mainLoop's newToken while it is being sent
  consecutive403Count,
  tasks,       \* the tasks of the current batch not yet ranged over
  mRetries,    \* 429 answers so far in the current getTasks call
  mLast,       \* the last answer mainLoop received: [call, kind, status]
  tpc,         \* Target Poller: "idle","select","fetch","range","signup","prompt","send"
  ttoken,      \* pollUnregisteredTargets' token
  tNew,        \* its newToken while it is being sent
  targets,     \* the targets of the current cycle not yet ranged over
  knownSlugs,  \* the sync.Map, as the set of its keys
  tRetries,    \* 429 answers so far in the current fetch or signup call
  tLast,       \* the last answer the Target Poller received
  signupCalls, \* per slug: signupTarget calls made by the loop
  signupOKs,   \* per slug: registrations answered 200
  forbSinceOk, \* history: claims seen forbidden since the last claimed one
  forbRun,     \* history: the same, also restarted by an authorization failure
  cycles403,   \* history: cycles so far, if each was one task answered 403; else -1
  scen10,      \* history: progress of a batch of 3 answered 201, 403, 412
  usageShown,  \* flag.Usage() has printed the usage text
  cycFetched,  \* history: the slugs returned by the last successful target fetch
  cycKnown,    \* history: knownSlugs when that fetch returned
  cycRegs,     \* history: the slugs signupTarget was called for since then
  tDuring,     \* history: the last target fetch was answered 200 while
               \* mainLoop was in a refresh
  mWait,       \* the sleep after the last 429 of the getTasks call in progress
  tWait        \* the same for the Target Poller's call in progress

mvars == <<mpc, mtoken, mNew, consecutive403Count, tasks, mRetries, mLast>>
tvars == <<tpc, ttoken, tNew, targets, knownSlugs, tRetries, tLast, signupCalls, signupOKs>>
pvars == <<proc, exitCode, tokenFlag, argv, usageShown>>
hvars == <<forbSinceOk, forbRun, cycles403, scen10>>
thvars == <<cycFetched, cycKnown, cycRegs, tDuring>>
wvars == <<mWait, tWait>>
vars == <<pvars, mvars, tvars, hvars, thvars, wvars>>

\* a sleep before a retry: the call, the Retry-After value and the
\* nanoseconds slept (a decimal numeral)
NoWait == [call |-> "none", hint |-> <<>>, ns |-> <<>>]
Wait(call, resp, ns) == [call |-> call, hint |-> resp.retryAfter, ns |-> ns]

\* history records: the last answer a loop received, and the counter before it
NoAnswer == [call |-> "none", kind |-> "none", status |-> 0, before |-> 0]
Answer(call, resp, c) ==
  [call |-> call, kind |-> resp.kind, status |-> resp.status, before |-> c]

InitWith(flags, lines) ==
  /\ proc = "start" /\ exitCode = -1 /\ tokenFlag \in flags /\ argv \in lines
  /\ usageShown = FALSE
  /\ mpc = "idle" /\ mtoken = EmptyToken /\ mNew = EmptyToken
  /\ consecutive403Count = 0 /\ tasks = <<>> /\ mRetries = 0 /\ mLast = NoAnswer
  /\ tpc = "idle" /\ ttoken = EmptyToken /\ tNew = EmptyToken
  /\ targets = <<>> /\ knownSlugs = {} /\ tRetries = 0 /\ tLast = NoAnswer
  /\ signupCalls = [s \in Slugs |-> 0] /\ signupOKs = [s \in Slugs |-> 0]
  /\ forbSinceOk = 0 /\ forbRun = 0 /\ cycles403 = 0 /\ scen10 = 0
  /\ cycFetched = {} /\ cycKnown = {} /\ cycRegs = {} /\ tDuring = FALSE
  /\ mWait = NoWait /\ tWait = NoWait

\* a goroutine takes steps only while the process lives
Running == proc = "running"

\* -------------------------------------------------------------------- main
\* variant: the -t value is not checked
MissingToken_Never(flag) == FALSE

\* main: if *tokenFlag == ""
MissingToken(flag) == flag = EmptyToken

\* the kinds of command line
ArgvKinds == {"ok", "help", "bad"}

\* flag.Parse with flag.ExitOnError: the statuses it may exit with after
\* printing the usage, none when the command line parses.  For -h the
\* status is 0 with Go 1.15 and later and 2 before.
FlagParseExits(a) ==
  CASE a = "help" -> {0, 2}
    [] a = "bad" -> {2}
    [] OTHER -> {}

\* main: flag.Parse, the flag check, then both loops are started with the
\* same token
Main ==
  /\ proc = "start"
  /\ IF FlagParseExits(argv) # {}
       THEN /\ usageShown' = TRUE
            /\ proc' = "exited" /\ exitCode' \in FlagParseExits(argv)
            /\ UNCHANGED <<mvars, tvars>>
       ELSE IF MissingToken(tokenFlag)
       THEN /\ usageShown' = TRUE
            /\ proc' = "exited" /\ exitCode' = 1
            /\ UNCHANGED <<mvars, tvars>>
       ELSE /\ proc' = "running" /\ exitCode' = exitCode
            /\ usageShown' = usageShown
            /\ mpc' = "select" /\ mtoken' = tokenFlag
            /\ tpc' = "select" /\ ttoken' = tokenFlag
            /\ UNCHANGED <<mNew, consecutive403Count, tasks, mRetries, mLast,
                           tNew, targets, knownSlugs, tRetries, tLast,
                           signupCalls, signupOKs>>
  /\ UNCHANGED <<wvars, tokenFlag, argv, hvars, thvars>>

\* main returns when mainLoop returns: the process ends
MainReturn ==
  /\ Running /\ mpc = "returned"
  /\ proc' = "exited" /\ exitCode' = 0
  /\ UNCHANGED <<wvars, tokenFlag, argv, usageShown, mvars, tvars, hvars, thvars>>

\* both goroutines are blocked in a send on tokenChan.  The Go runtime may
\* find all goroutines asleep and abort the process with status 2; whether it
\* does depends on the build (cgo) and on connections the transports still
\* hold open, so the step is possible and never forced.
RuntimeDeadlock ==
  /\ Running /\ mpc = "send" /\ tpc = "send"
  /\ proc' = "exited" /\ exitCode' = 2
  /\ UNCHANGED <<wvars, tokenFlag, argv, usageShown, mvars, tvars, hvars, thvars>>

\* --------------------------------------------------------- Mission Poller
\* select with default, no sender waiting
MSelectDefault ==
  /\ Running /\ mpc = "select" /\ tpc # "send"
  /\ mpc' = "fetch"
  /\ UNCHANGED <<wvars, pvars, hvars, thvars, tvars, mtoken, mNew, consecutive403Count, tasks, mRetries, mLast>>

\* select receives the token the Target Poller is sending; the sender then
\* completes its refresh: token = newToken; continue
MSelectRecv ==
  /\ Running /\ mpc = "select" /\ tpc = "send"
  /\ mtoken' = tNew /\ mpc' = "fetch"
  /\ ttoken' = tNew /\ tNew' = EmptyToken /\ tpc' = "select"
  /\ UNCHANGED <<wvars, pvars, hvars, thvars, mNew, consecutive403Count, tasks, mRetries, mLast,
                 targets, knownSlugs, tRetries, tLast, signupCalls, signupOKs>>

\* strings.Contains(err.Error(), "403") and strings.Contains(err.Error(), "401")
IsForbidden(err) == Contains(err.text, Str403)
IsUnauthorized(err) == Contains(err.text, Str401)

\* variant: a claimed task leaves the counter as it was
CountAfterClaim_KeepOnSuccess(err, c) ==
  IF err.nil THEN c
  ELSE IF IsForbidden(err) THEN c + 1
  ELSE c

\* variant: every failure that is not forbidden restarts the counter
CountAfterClaim_ResetOnOther(err, c) ==
  IF err.nil THEN 0
  ELSE IF IsForbidden(err) THEN c + 1
  ELSE 0

\* consecutive403Count after the claim of one task returned err
CountAfterClaim(err, c) ==
  IF err.nil THEN 0
  ELSE IF IsForbidden(err) THEN c + 1
  ELSE c

\* variant: at the threshold mainLoop leaves the range with break, not return
PcAfterClaim_BreakAtThreshold(err, c, rest) ==
  IF ~err.nil /\ IsForbidden(err) /\ c + 1 >= ForbiddenThreshold THEN "select"
  ELSE IF ~err.nil /\ ~IsForbidden(err) /\ IsUnauthorized(err) THEN "prompt"
  ELSE IF rest = <<>> THEN "select"
  ELSE "claim"

\* variant: the threshold test is > instead of >=
PcAfterClaim_StrictlyAbove(err, c, rest) ==
  IF ~err.nil /\ IsForbidden(err) /\ c + 1 > ForbiddenThreshold THEN "returned"
  ELSE IF ~err.nil /\ ~IsForbidden(err) /\ IsUnauthorized(err) THEN "prompt"
  ELSE IF rest = <<>> THEN "select"
  ELSE "claim"

\* where mainLoop goes after the claim of one task returned err, with rest
\* the tasks still to range over
PcAfterClaim(err, c, rest) ==
  IF ~err.nil /\ IsForbidden(err) /\ c + 1 >= ForbiddenThreshold THEN "returned"
  ELSE IF ~err.nil /\ ~IsForbidden(err) /\ IsUnauthorized(err) THEN "prompt"
  ELSE IF rest = <<>> THEN "select"
  ELSE "claim"

\* ---- history of the answers mainLoop has seen (read by the properties only)
SeenForbidden(task, resp) ==
  \/ resp.kind = "http" /\ resp.status = 403
  \/ resp.kind = "net" /\ Contains(UrlError(TxtPost, ClaimURL(task), resp.cause), Str403)

SeenUnauthClaim(task, resp) ==
  /\ ~SeenForbidden(task, resp)
  /\ \/ resp.kind = "http" /\ resp.status = 401
     \/ resp.kind = "net" /\ Contains(UrlError(TxtPost, ClaimURL(task), resp.cause), Str401)

SeenUnauthFetch(resp) ==
  \/ resp.kind = "http" /\ resp.status = 401
  \/ resp.kind = "net" /\ Contains(UrlError(TxtGet, TxtTasksURL, resp.cause), Str401)
  \/ resp.kind = "decode" /\ Contains(resp.cause, Str401)

Capped(n) == IF n >= ForbiddenThreshold THEN ForbiddenThreshold ELSE n

ObserveFetch(resp, batch) ==
  LET is429 == resp.kind = "http" /\ resp.status = 429
      is200 == resp.kind = "http" /\ resp.status = 200
  IN /\ forbSinceOk' = forbSinceOk
     /\ forbRun' = IF SeenUnauthFetch(resp) THEN 0 ELSE forbRun
     /\ cycles403' = IF is429 \/ (is200 /\ Len(batch) = 1 /\ cycles403 >= 0)
                       THEN cycles403 ELSE -1
     /\ scen10' = IF is429 THEN scen10
                  ELSE IF is200 /\ Len(batch) = 3 /\ consecutive403Count = 0 THEN 1
                  ELSE 0

ObserveClaim(task, resp) ==
  LET st == IF resp.kind = "http" THEN resp.status ELSE 0 IN
  /\ forbSinceOk' = IF st = 201 THEN 0
                    ELSE IF SeenForbidden(task, resp) THEN Capped(forbSinceOk + 1)
                    ELSE forbSinceOk
  /\ forbRun' = IF st = 201 \/ SeenUnauthClaim(task, resp) THEN 0
                ELSE IF SeenForbidden(task, resp) THEN Capped(forbRun + 1)
                ELSE forbRun
  /\ cycles403' = IF st = 403 /\ cycles403 >= 0 THEN cycles403 + 1 ELSE -1
  /\ scen10' = IF scen10 = 1 /\ st = 201 THEN 2
               ELSE IF scen10 = 2 /\ st = 403 THEN 3
               ELSE IF scen10 = 3 /\ st = 412 THEN 4
               ELSE 0

\* variant: the counter is declared inside the for loop, so each cycle
\* starts it at zero
MFetch_CounterPerCycle(resp, batch) ==
  /\ Running /\ mpc = "fetch"
  /\ mLast' = Answer("fetch", resp, consecutive403Count)
  /\ ObserveFetch(resp, batch)
  /\ IF resp.kind = "http" /\ resp.status = 429
       THEN \* wait, then the same fetch again
            /\ mRetries < MaxRetry
            /\ mRetries' = mRetries + 1
            /\ mWait' = Wait("fetch", resp, getTasksWait(resp.retryAfter))
            /\ UNCHANGED <<mpc, tasks, consecutive403Count>>
       ELSE LET err == getTasks(resp) IN
            /\ mRetries' = 0
            /\ mWait' = NoWait
            /\ IF ~err.nil
                 THEN /\ tasks' = <<>>
                      /\ mpc' = IF IsUnauthorized(err) THEN "prompt" ELSE "select"
                 ELSE /\ tasks' = batch
                      /\ mpc' = IF batch = <<>> THEN "select" ELSE "claim"
            /\ consecutive403Count' = 0
  /\ UNCHANGED <<tWait, pvars, thvars, tvars, mtoken, mNew>>

\* one request of getTasks and what mainLoop does with its result
MFetch(resp, batch) ==
  /\ Running /\ mpc = "fetch"
  /\ mLast' = Answer("fetch", resp, consecutive403Count)
  /\ ObserveFetch(resp, batch)
  /\ IF resp.kind = "http" /\ resp.status = 429
       THEN \* wait, then the same fetch again
            /\ mRetries < MaxRetry
            /\ mRetries' = mRetries + 1
            /\ mWait' = Wait("fetch", resp, getTasksWait(resp.retryAfter))
            /\ UNCHANGED <<mpc, tasks, consecutive403Count>>
       ELSE LET err == getTasks(resp) IN
            /\ mRetries' = 0
            /\ mWait' = NoWait
            /\ IF ~err.nil
                 THEN /\ tasks' = <<>>
                      /\ mpc' = IF IsUnauthorized(err) THEN "prompt" ELSE "select"
                 ELSE /\ tasks' = batch
                      /\ mpc' = IF batch = <<>> THEN "select" ELSE "claim"
            /\ UNCHANGED consecutive403Count
  /\ UNCHANGED <<tWait, pvars, thvars, tvars, mtoken, mNew>>

\* one iteration of the range over tasks: the claim and its classification
MClaim(resp) ==
  /\ Running /\ mpc = "claim" /\ tasks # <<>>
  /\ mLast' = Answer("claim", resp, consecutive403Count)
  /\ ObserveClaim(Head(tasks), resp)
  /\ LET err == postClaimTask(Head(tasks), resp) IN
       /\ consecutive403Count' = CountAfterClaim(err, consecutive403Count)
       /\ mpc' = PcAfterClaim(err, consecutive403Count, Tail(tasks))
       /\ tasks' = Tail(tasks)
  /\ UNCHANGED <<wvars, pvars, thvars, tvars, mtoken, mNew, mRetries>>

\* variant: tokenChan has a buffer, the send returns at once
MPrompt_Buffered(tok) ==
  /\ Running /\ mpc = "prompt"
  /\ mNew' = tok /\ mtoken' = tok /\ consecutive403Count' = 0 /\ tasks' = <<>>
  /\ mpc' = "select"
  /\ UNCHANGED <<wvars, pvars, hvars, thvars, tvars, mRetries, mLast>>

\* refreshToken returns the line read; mainLoop then blocks in the send
MPrompt(tok) ==
  /\ Running /\ mpc = "prompt"
  /\ mNew' = tok /\ mpc' = "send"
  /\ UNCHANGED <<wvars, pvars, hvars, thvars, tvars, mtoken, consecutive403Count, tasks, mRetries, mLast>>

\* ---------------------------------------------------------- Target Poller
\* variant: the Target Poller does not start a cycle while mainLoop is in a refresh
TSelectDefault_WaitsForRefresh ==
  /\ Running /\ tpc = "select" /\ mpc \notin {"prompt", "send"}
  /\ tpc' = "fetch"
  /\ UNCHANGED <<wvars, pvars, hvars, thvars, mvars, ttoken, tNew, targets, knownSlugs, tRetries, tLast,
                 signupCalls, signupOKs>>

TSelectDefault ==
  /\ Running /\ tpc = "select" /\ mpc # "send"
  /\ tpc' = "fetch"
  /\ UNCHANGED <<wvars, pvars, hvars, thvars, mvars, ttoken, tNew, targets, knownSlugs, tRetries, tLast,
                 signupCalls, signupOKs>>

\* variant: after the send mainLoop keeps the token it had
TSelectRecv_SenderKeepsToken ==
  /\ Running /\ tpc = "select" /\ mpc = "send"
  /\ ttoken' = mNew /\ tpc' = "fetch"
  /\ mtoken' = mtoken /\ mNew' = EmptyToken /\ consecutive403Count' = 0
  /\ tasks' = <<>> /\ mpc' = "select"
  /\ UNCHANGED <<wvars, pvars, hvars, thvars, mRetries, mLast, tNew, targets, knownSlugs, tRetries, tLast,
                 signupCalls, signupOKs>>

\* variant: mainLoop completes its refresh without restarting the counter
TSelectRecv_NoReset ==
  /\ Running /\ tpc = "select" /\ mpc = "send"
  /\ ttoken' = mNew /\ tpc' = "fetch"
  /\ mtoken' = mNew /\ mNew' = EmptyToken /\ consecutive403Count' = consecutive403Count
  /\ tasks' = <<>> /\ mpc' = "select"
  /\ UNCHANGED <<wvars, pvars, hvars, thvars, mRetries, mLast, tNew, targets, knownSlugs, tRetries, tLast,
                 signupCalls, signupOKs>>

\* select receives the token mainLoop is sending; mainLoop then completes
\* its refresh: token = newToken; consecutive403Count = 0; continue or break
TSelectRecv ==
  /\ Running /\ tpc = "select" /\ mpc = "send"
  /\ ttoken' = mNew /\ tpc' = "fetch"
  /\ mtoken' = mNew /\ mNew' = EmptyToken /\ consecutive403Count' = 0
  /\ tasks' = <<>> /\ mpc' = "select"
  /\ UNCHANGED <<wvars, pvars, hvars, thvars, mRetries, mLast, tNew, targets, knownSlugs, tRetries, tLast,
                 signupCalls, signupOKs>>

\* ---- history of the Target Poller's cycles (read by the properties only)
ObserveTargets(resp, list) ==
  IF resp.kind = "http" /\ resp.status = 429
    THEN UNCHANGED thvars
    ELSE /\ cycFetched' = IF resp.kind = "http" /\ resp.status = 200
                            THEN { list[i] : i \in 1..Len(list) } ELSE {}
         /\ cycKnown' = knownSlugs
         /\ cycRegs' = {}
         /\ tDuring' = (resp.kind = "http" /\ resp.status = 200
                          /\ mpc \in {"prompt", "send"})

TFetch(resp, list) ==
  /\ Running /\ tpc = "fetch"
  /\ tLast' = Answer("fetch", resp, 0)
  /\ IF resp.kind = "http" /\ resp.status = 429
       THEN /\ tRetries < MaxRetry
            /\ tRetries' = tRetries + 1
            /\ tWait' = Wait("fetch", resp, getUnregisteredTargetsWait(resp.retryAfter))
            /\ UNCHANGED <<tpc, targets>>
       ELSE LET err == getUnregisteredTargets(resp) IN
            /\ tRetries' = 0
            /\ tWait' = NoWait
            /\ IF ~err.nil
                 THEN /\ targets' = <<>>
                      /\ tpc' = IF IsUnauthorized(err) THEN "prompt" ELSE "select"
                 ELSE /\ targets' = list
                      /\ tpc' = IF list = <<>> THEN "select" ELSE "range"
  /\ ObserveTargets(resp, list)
  /\ UNCHANGED <<mWait, pvars, hvars, mvars, ttoken, tNew, knownSlugs, signupCalls, signupOKs>>

\* variant: a load that does not store
LoadOrStore_NoStore(m, slug) == [keys |-> m, loaded |-> slug \in m]

\* variant: a store that never reports the slug as already present
LoadOrStore_AlwaysNew(m, slug) == [keys |-> m \cup {slug}, loaded |-> FALSE]

\* sync.Map.LoadOrStore(slug, true): the keys afterwards, and loaded
LoadOrStore(m, slug) == [keys |-> m \cup {slug}, loaded |-> slug \in m]

\* one iteration of the range over targets, up to the signupTarget call
TRange ==
  /\ Running /\ tpc = "range" /\ targets # <<>>
  /\ LET slug == Head(targets)
         r == LoadOrStore(knownSlugs, slug)
     IN /\ knownSlugs' = r.keys
        /\ IF ~r.loaded
             THEN /\ tpc' = "signup"
                  /\ signupCalls' = [signupCalls EXCEPT ![slug] = @ + 1]
                  /\ cycRegs' = cycRegs \cup {slug}
                  /\ UNCHANGED targets
             ELSE /\ targets' = Tail(targets)
                  /\ tpc' = IF Tail(targets) = <<>> THEN "select" ELSE "range"
                  /\ UNCHANGED <<signupCalls, cycRegs>>
  /\ UNCHANGED <<wvars, pvars, hvars, mvars, ttoken, tNew, tRetries, tLast, signupOKs,
                 cycFetched, cycKnown, tDuring>>

\* variant: a slug whose registration fails is deleted from knownSlugs
TSignup_ForgetOnFailure(resp) ==
  /\ Running /\ tpc = "signup"
  /\ tLast' = Answer("signup", resp, 0)
  /\ IF resp.kind = "http" /\ resp.status = 429
       THEN /\ tRetries < MaxRetry
            /\ tRetries' = tRetries + 1
            /\ tWait' = Wait("signup", resp, signupTargetWait(resp.retryAfter))
            /\ UNCHANGED <<tpc, targets, signupOKs, knownSlugs>>
       ELSE /\ tRetries' = 0
            /\ tWait' = NoWait
            /\ signupOKs' = IF signupTarget(resp)
                              THEN [signupOKs EXCEPT ![Head(targets)] = @ + 1]
                              ELSE signupOKs
            /\ knownSlugs' = IF signupTarget(resp) THEN knownSlugs
                              ELSE knownSlugs \ {Head(targets)}
            /\ targets' = Tail(targets)
            /\ tpc' = IF Tail(targets) = <<>> THEN "select" ELSE "range"
  /\ UNCHANGED <<mWait, pvars, hvars, thvars, mvars, ttoken, tNew, signupCalls>>

\* one request of signupTarget for the slug at the head of targets
TSignup(resp) ==
  /\ Running /\ tpc = "signup"
  /\ tLast' = Answer("signup", resp, 0)
  /\ IF resp.kind = "http" /\ resp.status = 429
       THEN /\ tRetries < MaxRetry
            /\ tRetries' = tRetries + 1
            /\ tWait' = Wait("signup", resp, signupTargetWait(resp.retryAfter))
            /\ UNCHANGED <<tpc, targets, signupOKs>>
       ELSE /\ tRetries' = 0
            /\ tWait' = NoWait
            /\ signupOKs' = IF signupTarget(resp)
                              THEN [signupOKs EXCEPT ![Head(targets)] = @ + 1]
                              ELSE signupOKs
            /\ targets' = Tail(targets)
            /\ tpc' = IF Tail(targets) = <<>> THEN "select" ELSE "range"
  /\ UNCHANGED <<mWait, pvars, hvars, thvars, mvars, ttoken, tNew, knownSlugs, signupCalls>>

\* variant: the replacement is written to the other loop's token at once
TPrompt_SharedToken(tok) ==
  /\ Running /\ tpc = "prompt"
  /\ tNew' = tok /\ tpc' = "send" /\ mtoken' = tok
  /\ UNCHANGED <<wvars, pvars, hvars, thvars, mpc, mNew, consecutive403Count, tasks, mRetries, mLast,
                 ttoken, targets, knownSlugs, tRetries, tLast, signupCalls, signupOKs>>

\* refreshToken returns the line read; the poller then blocks in the send
TPrompt(tok) ==
  /\ Running /\ tpc = "prompt"
  /\ tNew' = tok /\ tpc' = "send"
  /\ UNCHANGED <<wvars, pvars, hvars, thvars, mvars, ttoken, targets, knownSlugs, tRetries, tLast,
                 signupCalls, signupOKs>>

\* ------------------------------------------------------------ specification
\* The bodies a 200 answer may carry; any other answer carries none.
BodiesOf(resp, bodies) ==
  IF resp.kind = "http" /\ resp.status = 200 THEN bodies ELSE {<<>>}

\* the answers that stand for each way a call can end (Spec)
ClaimRespsShort == { HttpResp(st) : st \in {201, 401, 403, 429} }
FetchRespsShort == { HttpResp(st) : st \in {200, 401, 429} } \cup {NetFail(CauseEOF)}

Ok200 == HttpResp(200)
Unauth == HttpResp(401)
PlainTask == Task(<<"m","7">>)

\* Spec: both loops with every answer and every token, short lists.
Init == InitWith(Tokens, ArgvKinds)

Next ==
  \/ Main
  \/ MainReturn
  \/ RuntimeDeadlock
  \/ MSelectDefault
  \/ MSelectRecv
  \/ \E resp \in FetchRespsShort :
       \E batch \in BodiesOf(resp, SeqsUpTo({PlainTask}, SmallList)) : MFetch(resp, batch)
  \/ \E resp \in ClaimRespsShort : MClaim(resp)
  \/ \E tok \in Tokens : MPrompt(tok)
  \/ TSelectDefault
  \/ TSelectRecv
  \/ \E resp \in FetchRespsShort :
       \E list \in BodiesOf(resp, SeqsUpTo({"a"}, SmallList)) : TFetch(resp, list)
  \/ TRange
  \/ \E resp \in SignupResps : TSignup(resp)
  \/ \E tok \in Tokens : TPrompt(tok)

Spec == Init /\ [][Next]_vars

\* SpecMission: the Mission Poller with every batch and every answer; the
\* Target Poller only finds no targets or is sent to a refresh.
InitMission == InitWith({1}, {"ok"})

NextMission ==
  \/ Main
  \/ MainReturn
  \/ RuntimeDeadlock
  \/ MSelectDefault
  \/ MSelectRecv
  \/ \E resp \in FetchResps :
       \E batch \in BodiesOf(resp, Batches) : MFetch(resp, batch)
  \/ \E resp \in ClaimResps : MClaim(resp)
  \/ MPrompt(1)
  \/ TSelectDefault
  \/ TSelectRecv
  \/ \E resp \in {Ok200, Unauth} : TFetch(resp, <<>>)
  \/ TPrompt(1)

SpecMission == InitMission /\ [][NextMission]_vars

\* SpecTarget: the Target Poller with every target list and every answer;
\* the Mission Poller only finds no missions or is sent to a refresh.
NextTarget ==
  \/ Main
  \/ RuntimeDeadlock
  \/ MSelectDefault
  \/ MSelectRecv
  \/ \E resp \in {Ok200, Unauth} : MFetch(resp, <<>>)
  \/ MPrompt(1)
  \/ TSelectDefault
  \/ TSelectRecv
  \/ \E resp \in FetchResps :
       \E list \in BodiesOf(resp, TargetLists) : TFetch(resp, list)
  \/ TRange
  \/ \E resp \in SignupResps : TSignup(resp)
  \/ TPrompt(1)

SpecTarget == InitMission /\ [][NextTarget]_vars

\* the steps of each goroutine in Spec
MStep ==
  \/ MSelectDefault
  \/ MSelectRecv
  \/ \E resp \in FetchRespsShort :
       \E batch \in BodiesOf(resp, SeqsUpTo({PlainTask}, SmallList)) : MFetch(resp, batch)
  \/ \E resp \in ClaimRespsShort : MClaim(resp)
  \/ \E tok \in Tokens : MPrompt(tok)

TStep ==
  \/ TSelectDefault
  \/ TSelectRecv
  \/ \E resp \in FetchRespsShort :
       \E list \in BodiesOf(resp, SeqsUpTo({"a"}, SmallList)) : TFetch(resp, list)
  \/ TRange
  \/ \E resp \in SignupResps : TSignup(resp)
  \/ \E tok \in Tokens : TPrompt(tok)

\* SpecLive: Spec, where each goroutine that can take a step eventually takes
\* one (the scheduler is fair, every request is answered, every prompt is
\* answered) and main returns once mainLoop has returned
SpecLive == Spec /\ WF_vars(MStep) /\ WF_vars(TStep) /\ WF_vars(MainReturn)

\* ------------------------------------------------------------------ claims
IsHttp(a, call, st) == a.call = call /\ a.kind = "http" /\ a.status = st

\* C1 (as stated): the Mission Poller has terminated exactly when it has seen
\* 5 forbidden claim answers with no claimed task between them.
C1_Orig == (mpc = "returned") <=> (forbSinceOk >= 5)

\* C1 (amended): the Mission Poller has terminated exactly when it has seen
\* 5 forbidden claim answers with neither a claimed task nor an authorization
\* failure (of the fetch or of a claim) between them.
C1_TerminatesIffFiveForbidden == (mpc = "returned") <=> (forbRun >= 5)

\* the poller has ended at a fifth forbidden answer
C1_Witness == mpc = "returned" /\ forbRun = 5 /\ IsHttp(mLast, "claim", 403)

\* C2: right after a claim that succeeds (201) the consecutive-forbidden
\* counter is zero, whatever it was before.
C2_SuccessResetsCounter ==
  IsHttp(mLast, "claim", 201) => consecutive403Count = 0

C2_Witness ==
  IsHttp(mLast, "claim", 201) /\ mLast.before > 0 /\ consecutive403Count = 0

\* C3: over the whole run the Target Poller calls signupTarget at most once
\* per slug, and at most one registration of a slug succeeds.
C3_RegisteredAtMostOnce ==
  \A s \in Slugs : signupCalls[s] <= 1 /\ signupOKs[s] <= 1

\* a registered slug is returned again by a later fetch and is being ranged over
C3_Witness ==
  /\ tpc = "range" /\ targets # <<>>
  /\ signupOKs[Head(targets)] = 1 /\ Head(targets) \in knownSlugs

\* C4 (as stated): every 401 answer to a mission fetch, a claim, a target
\* fetch or a registration starts one prompt for a replacement, and when a
\* refresh completes both loops hold the replacement.
C4_Orig ==
  [][ /\ (MFetch(Unauth, <<>>) \/ MClaim(Unauth)) => mpc' = "prompt"
      /\ (TFetch(Unauth, <<>>) \/ TSignup(Unauth)) => tpc' = "prompt"
      /\ (mpc = "send" /\ mpc' # "send") => (mtoken' = mNew /\ ttoken' = mNew)
      /\ (tpc = "send" /\ tpc' # "send") => (mtoken' = tNew /\ ttoken' = tNew)
    ]_vars

\* C5 (as stated): after the Mission Poller has terminated at the forbidden
\* threshold the process is still running, and the Target Poller with it.
C5_Orig == mpc = "returned" => proc = "running"

\* C6 (as stated): no state is reachable in which both loops wait in the
\* hand-over of a replacement with nobody left to receive it.
C6_Orig == ~(Running /\ mpc = "send" /\ tpc = "send")

\* C7 (as stated): a logical call is retried at most once after a 429.
C7_Orig == mRetries <= 1 /\ tRetries <= 1

\* C8: a 429 answer to any of the four calls leaves the consecutive-forbidden
\* counter as it was and terminates neither loop: the Mission Poller has not
\* returned, and the Target Poller is still in the call that was answered.
C8_RateLimitNeutral ==
  /\ (mLast.kind = "http" /\ mLast.status = 429) =>
       /\ consecutive403Count = mLast.before
       /\ mpc \in {"fetch", "claim", "select"}
  /\ (tLast.kind = "http" /\ tLast.status = 429) => tpc \in {"fetch", "signup"}

\* a claim was answered 429 with the counter above zero
C8_Witness ==
  /\ IsHttp(mLast, "claim", 429) /\ mLast.before > 0 /\ consecutive403Count > 0
  /\ IsHttp(tLast, "signup", 429)

\* C9: in a run of cycles that each fetch one task whose claim is answered
\* 403, the counter equals the number of cycles so far, the Mission Poller
\* has not returned after fewer than 5 of them and has returned after the 5th.
C9_CounterCarriedAcrossCycles ==
  /\ cycles403 \in 0..4 => (consecutive403Count = cycles403 /\ mpc # "returned")
  /\ cycles403 = 5 => mpc = "returned"

C9_Witness == cycles403 = 5 /\ mpc = "returned" /\ tasks = <<>>

\* C10: a batch of 3 tasks fetched with the counter at 0 and answered 201,
\* 403, 412: after the first two answers the third claim is still to be made,
\* and after the third the counter is 1 and the Mission Poller goes on to its
\* next cycle.
C10_BatchSuccessForbiddenPrecondition ==
  /\ scen10 = 2 => (consecutive403Count = 0 /\ mpc = "claim" /\ Len(tasks) = 2)
  /\ scen10 = 3 => (consecutive403Count = 1 /\ mpc = "claim" /\ Len(tasks) = 1)
  /\ scen10 = 4 => (consecutive403Count = 1 /\ mpc \in {"select", "fetch"} /\ tasks = <<>>)

C10_Witness == scen10 = 4 /\ IsHttp(mLast, "claim", 412) /\ consecutive403Count = 1

\* C11: in every cycle whose fetch succeeds, signupTarget is called for
\* exactly the returned slugs that were not in knownSlugs when the fetch
\* returned: never for another slug, and for all of them once the range over
\* the targets has ended.
C11_RegistersExactlyNewSlugs ==
  /\ cycRegs \subseteq (cycFetched \ cycKnown)
  /\ (tpc \in {"select", "fetch"} /\ tLast.call # "none" /\ targets = <<>>)
       => cycRegs = cycFetched \ cycKnown

\* the second cycle of the scenario has ended: a, b and c were returned, a
\* and b were known from an earlier cycle, only c was registered
C11_Witness ==
  /\ tpc = "select"
  /\ cycFetched = {"a", "b", "c"} /\ cycKnown = {"a", "b"} /\ cycRegs = {"c"}
  /\ \A s \in Slugs : signupCalls[s] = 1

\* C12 (as stated): a loop that has read a replacement token at its prompt
\* eventually performs its next fetch, unless the process has ended.
C12_Orig ==
  /\ (Running /\ mpc = "send") ~> (mpc = "fetch" \/ proc = "exited")
  /\ (Running /\ tpc = "send") ~> (tpc = "fetch" \/ proc = "exited")

\* C13 (as stated): with no -t value or an empty one, once main has run the
\* usage text is printed, the process has ended with a status that is not
\* 0, neither loop was started and no request was answered.
C13_Orig ==
  (tokenFlag = EmptyToken /\ proc # "start") =>
    /\ usageShown /\ proc = "exited" /\ exitCode \notin {-1, 0}
    /\ mpc = "idle" /\ tpc = "idle"
    /\ mLast = NoAnswer /\ tLast = NoAnswer

\* C13 (amended): once main has run on a command line that parses with an
\* empty -t value, the usage text is printed and the process has ended with
\* status 1; on a command line that flag.Parse rejects or that asks for
\* help, whatever the token, the usage text is printed and the process has
\* ended with the status of flag.Parse (2, or 0 for help).  In all these
\* cases neither loop was started and no request was answered.
C13_MissingTokenExits ==
  /\ (proc # "start" /\ argv = "ok" /\ tokenFlag = EmptyToken) =>
       /\ usageShown /\ proc = "exited" /\ exitCode = 1
       /\ mpc = "idle" /\ tpc = "idle"
       /\ mLast = NoAnswer /\ tLast = NoAnswer
  /\ (proc # "start" /\ argv # "ok") =>
       /\ usageShown /\ proc = "exited" /\ exitCode \in FlagParseExits(argv)
       /\ mpc = "idle" /\ tpc = "idle"
       /\ mLast = NoAnswer /\ tLast = NoAnswer

\* the command line parsed, the token was empty: usage and status 1
C13_Witness ==
  /\ argv = "ok" /\ tokenFlag = EmptyToken
  /\ proc = "exited" /\ usageShown /\ exitCode = 1

\* C14 (as stated): after a claim answered 412 no further claim is made in
\* that cycle, the Mission Poller has not terminated and the counter is as
\* it was before the answer.
C14_Orig ==
  IsHttp(mLast, "claim", 412) =>
    /\ mpc \notin {"claim", "returned"}
    /\ consecutive403Count = mLast.before

\* C15 (as stated): when a registration is answered 401 the Target Poller
\* goes to the prompt for a replacement token, and makes no further request
\* before it has one.
C15_Orig == [][TSignup(Unauth) => tpc' = "prompt"]_vars

\* C16 (as stated), for the claim answers that carry a status: after every
\* answer other than 403 the counter is zero (for a 401, once the refresh has
\* completed).
C16_Orig ==
  (mLast.call = "claim" /\ mLast.kind = "http" /\ mLast.status # 403
     /\ mpc \notin {"prompt", "send"})
    => consecutive403Count = 0

\* C16 (amended): every claim outcome, with or without an HTTP status, acts
\* on the counter by its class alone: a claimed task (201) sets it to zero; a
\* failure whose error text holds 403 (an HTTP 403, or a transport failure
\* with 403 in its message) adds one; every other failure (401, 412, any
\* other status, any other transport failure) leaves it as it was.  Of
\* these, the failures whose text holds 401 and not 403 send mainLoop into a
\* token refresh, and so does a mission fetch whose error text holds 401; the
\* counter is zero when a refresh completes.  The counter goes to zero in no
\* other way than by a claimed task or a completed refresh.
C16_ResetOnlyBySuccessOrRefresh ==
  [][/\ \A resp \in ClaimResps :
          MClaim(resp) =>
            /\ consecutive403Count' =
                 IF resp = HttpResp(201) THEN 0
                 ELSE IF SeenForbidden(Head(tasks), resp)
                   THEN consecutive403Count + 1
                 ELSE consecutive403Count
            /\ mpc' = "prompt" <=> SeenUnauthClaim(Head(tasks), resp)
     /\ (mpc # "prompt" /\ mpc' = "prompt") =>
          \/ /\ mpc = "claim" /\ tasks # <<>>
             /\ \E resp \in ClaimResps :
                  SeenUnauthClaim(Head(tasks), resp) /\ MClaim(resp)
          \/ /\ mpc = "fetch"
             /\ \E resp \in FetchResps :
                  SeenUnauthFetch(resp) /\ MFetch(resp, <<>>)
     /\ (mpc = "send" /\ mpc' # "send") => consecutive403Count' = 0
     /\ (consecutive403Count # 0 /\ consecutive403Count' = 0) =>
          \/ MClaim(HttpResp(201))
          \/ mpc = "send" /\ mpc' = "select"
    ]_vars

\* a claim was answered 412 after forbidden answers and the counter kept
\* its value
C16_Witness ==
  IsHttp(mLast, "claim", 412) /\ mLast.before > 0
    /\ consecutive403Count = mLast.before

\* C17 (as stated): after a claim that failed otherwise than with 403, 401 or
\* 412 (another status, or a transport failure without a status) the counter
\* is as it was before, and the Mission Poller goes on with the next task of
\* the batch, if there is one.
C17_Orig ==
  (mLast.call = "claim"
     /\ \/ mLast.kind = "net"
        \/ mLast.kind = "http" /\ mLast.status \notin {201, 401, 403, 412})
    => /\ consecutive403Count = mLast.before
       /\ mpc \in {"claim", "select", "fetch"}
       /\ tasks # <<>> => mpc = "claim"

\* C18: a 401 on a claim or on the mission fetch sends the Mission Poller to
\* the prompt; no further claim is made in that cycle, and once the refresh
\* has completed the counter is zero and the rest of the batch is dropped.
C18_AuthFailureRefreshes ==
  /\ [][(MClaim(Unauth) \/ MFetch(Unauth, <<>>)) => mpc' = "prompt"]_vars
  /\ []((IsHttp(mLast, "claim", 401) \/ IsHttp(mLast, "fetch", 401)) =>
          /\ mpc \in {"prompt", "send", "select", "fetch"}
          /\ mpc \in {"select", "fetch"} => (consecutive403Count = 0 /\ tasks = <<>>))

\* the refresh after a 401 on a claim has completed; the counter was above
\* zero before and is zero now
C18_Witness ==
  /\ IsHttp(mLast, "claim", 401) /\ mLast.before > 0
  /\ mpc = "select" /\ consecutive403Count = 0 /\ tasks = <<>>

\* C19: while one loop is in a refresh (at the prompt or in the send) the
\* other loop, unless it is in a refresh itself, can always take its next
\* step; the token it uses does not change while the first loop is at the
\* prompt, and changes during the send only by receiving the replacement.
C19_RefreshBlocksOnlyItsLoop ==
  /\ []((Running /\ mpc \in {"prompt", "send"}
           /\ tpc \in {"select", "fetch", "range", "signup"}) => ENABLED TStep)
  /\ []((Running /\ tpc \in {"prompt", "send"}
           /\ mpc \in {"select", "fetch", "claim"}) => ENABLED MStep)
  /\ [][/\ mpc = "prompt" => ttoken' = ttoken
        /\ tpc = "prompt" => mtoken' = mtoken
        /\ (mpc = "send" /\ ttoken' # ttoken) => (tpc = "select" /\ ttoken' = mNew)
        /\ (tpc = "send" /\ mtoken' # mtoken) => (mpc = "select" /\ mtoken' = tNew)
      ]_vars

\* mainLoop is still at its prompt and the Target Poller has completed a
\* cycle (fetch answered 200, a slug registered) with the token it had
C19_Witness ==
  /\ Running /\ mpc = "prompt" /\ tpc = "select"
  /\ tDuring /\ cycRegs # {} /\ IsHttp(tLast, "signup", 200)
  /\ ttoken = mtoken

\* C20: the Mission Poller returns, and the process ends by main returning,
\* only at a claim answered 403: never at a precondition-failed
\* answer nor at a failure without a classified status.  The Target Poller
\* has no return of its own.
C20_Orig ==
  /\ mpc = "returned" => IsHttp(mLast, "claim", 403)
  /\ (proc = "exited" /\ exitCode = 0 /\ mpc # "idle")
       => (mpc = "returned" /\ IsHttp(mLast, "claim", 403))

\* C21: the token a loop passes to its API calls changes only in the select
\* at the start of an iteration, to the token the other loop is sending, or
\* at the end of the loop's own refresh, to the token it has sent; in the
\* fetch, the range and the claims or registrations it never changes.
C21_AdoptsOnlyAtTokenCheck ==
  [][/\ (Running /\ mtoken' # mtoken) =>
          \/ mpc = "select" /\ tpc = "send" /\ mtoken' = tNew
          \/ mpc = "send" /\ tpc = "select" /\ mtoken' = mNew
     /\ (Running /\ ttoken' # ttoken) =>
          \/ tpc = "select" /\ mpc = "send" /\ ttoken' = mNew
          \/ tpc = "send" /\ mpc = "select" /\ ttoken' = tNew
    ]_vars

\* the Target Poller is sending another token while mainLoop is between the
\* fetch and the claims of an iteration, and still holds the token it had
C21_Witness ==
  /\ Running /\ tpc = "send" /\ tNew # mtoken
  /\ mpc = "claim" /\ IsHttp(mLast, "fetch", 200) /\ mtoken = tokenFlag

\* C22 (as stated): whichever of the mission fetch, the target fetch and the
\* registration was answered 429, the sleep before the retry is the number
\* of seconds of Retry-After when the header is present and parses as an
\* integer (no sleep when it is negative), and the fixed wait otherwise.
C22_Orig ==
  \A w \in {mWait, tWait} :
    w # NoWait =>
      LET a == Atoi(w.hint) IN
      w.ns = IF w.hint # <<>> /\ a.ok
               THEN (IF a.val.neg \/ a.val.mag = <<>> THEN <<>> ELSE a.val.mag \o NineZeros)
               ELSE FallbackWait

\* C23: a loop that has read a replacement token goes into the send; while
\* it is there it receives no answer (it has issued no request), and it
\* leaves the send only in the step in which the other loop's select
\* receives that token.  Hence, if the other loop is never at its select
\* again, the loop is in the send for ever.
C23_SendBlocksUntilReceived ==
  /\ [][/\ (mpc = "prompt" /\ mpc' # "prompt") => (mpc' = "send" /\ mLast' = mLast)
        /\ (tpc = "prompt" /\ tpc' # "prompt") => (tpc' = "send" /\ tLast' = tLast)
        /\ mpc = "send" =>
             /\ mLast' = mLast /\ mRetries' = mRetries
             /\ mpc' # "send" => (tpc = "select" /\ tpc' = "fetch" /\ ttoken' = mNew)
        /\ tpc = "send" =>
             /\ tLast' = tLast /\ tRetries' = tRetries
             /\ tpc' # "send" => (mpc = "select" /\ mpc' = "fetch" /\ mtoken' = tNew)
       ]_vars
  /\ []((mpc = "send" /\ [](tpc # "select")) => [](mpc = "send"))
  /\ []((tpc = "send" /\ [](mpc # "select")) => [](tpc = "send"))

\* mainLoop is in the send with a token the Target Poller has not received:
\* the poller is in a registration call and mainLoop still holds the old token
C23_Witness ==
  /\ Running /\ mpc = "send" /\ mNew # mtoken /\ ttoken = mtoken
  /\ tpc = "signup" /\ IsHttp(mLast, "fetch", 401)

\* C24: a slug is in knownSlugs when signupTarget is called for it, no slug
\* ever leaves knownSlugs, and a slug signupTarget has been called for,
\* whatever the answer was, is never passed to signupTarget again.
C24_FailedSlugNeverRetried ==
  /\ [](tpc = "signup" => (targets # <<>> /\ Head(targets) \in knownSlugs))
  /\ [](\A s \in Slugs : signupCalls[s] >= 1 => s \in knownSlugs)
  /\ [][/\ knownSlugs \subseteq knownSlugs'
        /\ \A s \in Slugs : signupCalls[s] >= 1 => signupCalls'[s] = signupCalls[s]
       ]_vars

\* the registration of slug a failed in an earlier cycle; a later fetch has
\* returned a again and the cycle has ended without a call for it
C24_Witness ==
  /\ signupCalls["a"] = 1 /\ signupOKs["a"] = 0
  /\ tpc = "select" /\ IsHttp(tLast, "fetch", 200)
  /\ "a" \in cycFetched /\ "a" \in cycKnown /\ cycRegs = {}

\* C25: consecutive403Count is always in 0..5, and it is 5 only when
\* mainLoop has returned.
C25_CounterRange ==
  /\ consecutive403Count \in 0..ForbiddenThreshold
  /\ consecutive403Count = ForbiddenThreshold => mpc = "returned"

\* mainLoop has returned with the counter at 5 and tasks of the batch left
C25_Witness ==
  /\ consecutive403Count = ForbiddenThreshold /\ mpc = "returned"
  /\ mLast.before = ForbiddenThreshold - 1 /\ tasks # <<>>

\* C26: the step in which consecutive403Count becomes 5 is the step in which
\* mainLoop returns, and from then on nothing of mainLoop changes: the tasks
\* left of the batch stay unclaimed, no answer is received, no token is
\* read or adopted.
C26_StopsAtOnce ==
  [][/\ (consecutive403Count # ForbiddenThreshold /\ consecutive403Count' = ForbiddenThreshold)
          => (mpc = "claim" /\ mpc' = "returned" /\ tasks' = Tail(tasks))
     /\ mpc = "returned" => mvars' = mvars
    ]_vars

\* mainLoop has returned in the middle of a batch, and the Target Poller is
\* offering a token that mainLoop will not receive
C26_Witness ==
  /\ Running /\ mpc = "returned" /\ tasks # <<>> /\ IsHttp(mLast, "claim", 403)
  /\ tpc = "send"

\* C27: whenever neither loop is in a refresh (at the prompt or in the
\* send), mainLoop's token and pollUnregisteredTargets' token are equal.
C27_SameTokenOutsideRefresh ==
  (mpc \notin {"prompt", "send"} /\ tpc \notin {"prompt", "send"}) => mtoken = ttoken

\* after a refresh both loops are in the middle of an iteration with the
\* same token, which is not the one the process was started with
C27_Witness ==
  /\ Running /\ mpc = "claim" /\ tpc = "signup"
  /\ mtoken = ttoken /\ mtoken # tokenFlag

\* C28 (as stated): after a mission fetch that returned an empty list, or
\* that failed with anything but a 401 answer (another status, a body that
\* does not decode, a transport failure), consecutive403Count is what it was
\* before the fetch.
C28_Orig ==
  (mLast.call = "fetch"
     /\ \/ IsHttp(mLast, "fetch", 200) /\ mpc \in {"select", "fetch"}
        \/ mLast.kind = "http" /\ mLast.status \notin {200, 401}
        \/ mLast.kind \in {"net", "decode"})
    => consecutive403Count = mLast.before

\* C29 (as stated): a claim request that fails without an HTTP status is
\* handled as a generic failure whatever its error text holds: the counter
\* stays as it was, no refresh starts and mainLoop does not return.
C29_Orig ==
  (mLast.call = "claim" /\ mLast.kind = "net") =>
    /\ mpc \notin {"prompt", "send", "returned"}
    /\ consecutive403Count = mLast.before

=============================================================================
